---- MODULE Spec2Model ----
(***************************************************************************)
(* Model of src/data_scraping/reader.py: rss_parser(xml, limit, json).     *)
(*                                                                         *)
(* Python values are tagged tuples: <<"None">>, <<"str", s>>,              *)
(* <<"int", n>>, <<"list", seq>>, <<"dict", seq of <<key, value>>>>.       *)
(* An XML element is a record [tag, text, kids]; text is None or a str,    *)
(* exactly what ElementTree gives (an element without text has text None). *)
(* The string js.dumps returns is kept as the JSON document it denotes     *)
(* (null / string / array / object nodes).                                 *)
(***************************************************************************)
EXTENDS Integers, Sequences, FiniteSets, TLC

VARIABLES xml, limit, json, pc, xml_str, channel, channel_info, items, idx,
          result, json_dump, exc

vars == <<xml, limit, json, pc, xml_str, channel, channel_info, items, idx,
          result, json_dump, exc>>

----------------------------------------------------------------------------
(* Bounds of the explored inputs *)

MaxChildren == 3

MaxLimit == 2

----------------------------------------------------------------------------
(* Python values *)

None == <<"None">>

Str(s) == <<"str", s>>

PyInt(n) == <<"int", n>>

PyList(seq) == <<"list", seq>>

PyDict(pairs) == <<"dict", pairs>>

Unset == <<"unset">>

IsNone(v) == v[1] = "None"

IsStr(v) == v[1] = "str"

Min(a, b) == IF a <= b THEN a ELSE b

Max(a, b) == IF a >= b THEN a ELSE b

(* str(v) as an f-string placeholder renders it: None becomes "None" *)
Format(v) == IF IsNone(v) THEN "None" ELSE v[2]

(* seq[-n:] in place of seq[:n]: keeps the last n instead of the first n *)
SliceTo_Last(seq, n) ==
    IF n > 0 THEN SubSeq(seq, Len(seq) - Min(n, Len(seq)) + 1, Len(seq))
    ELSE IF n = 0 THEN <<>>
    ELSE SubSeq(seq, 1, Max(Len(seq) + n, 0))

(* seq[:n] *)
SliceTo(seq, n) ==
    IF n >= 0 THEN SubSeq(seq, 1, Min(n, Len(seq)))
              ELSE SubSeq(seq, 1, Max(Len(seq) + n, 0))

----------------------------------------------------------------------------
(* xml.etree.ElementTree *)

Elem(tag, text, kids) == [tag |-> tag, text |-> text, kids |-> kids]

Leaf(tag, text) == Elem(tag, text, <<>>)

(* the None that Element.find returns *)
NoElem == Elem("#None", None, <<>>)

(* Element.find(tag): first direct child with that tag, or None *)
find(el, tag) ==
    IF \E i \in 1..Len(el.kids) : el.kids[i].tag = tag
    THEN LET i == CHOOSE j \in 1..Len(el.kids) :
                     /\ el.kids[j].tag = tag
                     /\ \A k \in 1..(j-1) : el.kids[k].tag # tag
         IN el.kids[i]
    ELSE NoElem

(* Element.findall(tag): all direct children with that tag, document order *)
findall(el, tag) ==
    LET RECURSIVE Sel(_)
        Sel(s) == IF s = <<>> THEN <<>>
                  ELSE IF Head(s).tag = tag THEN <<Head(s)>> \o Sel(Tail(s))
                  ELSE Sel(Tail(s))
    IN Sel(el.kids)

----------------------------------------------------------------------------
(* reader.py helpers *)

get_text_or_default(element, default) ==
    IF element # NoElem THEN element.text ELSE default

(* the comprehension with "if category.text" added: empty entries skipped *)
CategoryTexts_SkipEmpty(el) ==
    LET cats == findall(el, "category")
        RECURSIVE Texts(_)
        Texts(s) == IF s = <<>> THEN <<>>
                    ELSE IF IsNone(Head(s).text) THEN Texts(Tail(s))
                    ELSE <<Head(s).text>> \o Texts(Tail(s))
    IN PyList(Texts(cats))

(* [category.text for category in el.findall("category")] or [] *)
CategoryTexts(el) ==
    LET cats == findall(el, "category")
        l == [i \in 1..Len(cats) |-> cats[i].text]
    IN IF l = <<>> THEN PyList(<<>>) ELSE PyList(l)

ChannelInfo(ch) ==
    [title          |-> get_text_or_default(find(ch, "title"), Str("")),
     link           |-> get_text_or_default(find(ch, "link"), Str("")),
     description    |-> get_text_or_default(find(ch, "description"), Str("")),
     lastBuildDate  |-> get_text_or_default(find(ch, "lastBuildDate"), Str("")),
     pubDate        |-> get_text_or_default(find(ch, "pubDate"), Str("")),
     language       |-> get_text_or_default(find(ch, "language"), Str("")),
     categories     |-> CategoryTexts(ch),
     managingEditor |-> get_text_or_default(find(ch, "managingEditor"), Str(""))]

ItemInfo(item) ==
    [title       |-> get_text_or_default(find(item, "title"), Str("")),
     author      |-> get_text_or_default(find(item, "author"), Str("")),
     pubDate     |-> get_text_or_default(find(item, "pubDate"), Str("")),
     link        |-> get_text_or_default(find(item, "link"), Str("")),
     categories  |-> CategoryTexts(item),
     description |-> get_text_or_default(find(item, "description"), Str(""))]

(* the loop over channel.findall("item") *)
ItemInfos(ch) ==
    LET its == findall(ch, "item")
    IN [i \in 1..Len(its) |-> ItemInfo(its[i])]

(* ', '.join(list): defined only when every entry is a str *)
JoinOk(list) == \A i \in 1..Len(list[2]) : IsStr(list[2][i])

RECURSIVE JoinStr(_, _)
JoinStr(sep, seq) ==
    IF seq = <<>> THEN ""
    ELSE IF Len(seq) = 1 THEN seq[1][2]
    ELSE seq[1][2] \o sep \o JoinStr(sep, Tail(seq))

Join(sep, list) == JoinStr(sep, list[2])

----------------------------------------------------------------------------
(* json.dumps: a JSON document is a tree of tagged nodes *)

JNull == <<"null">>

JString(s) == <<"string", s>>

JArray(seq) == <<"array", seq>>

JObject(members) == <<"object", members>>

RECURSIVE dumps(_)
dumps(v) ==
    CASE v[1] = "None" -> JNull
      [] v[1] = "str"  -> JString(v[2])
      [] v[1] = "list" -> JArray([i \in 1..Len(v[2]) |-> dumps(v[2][i])])
      [] v[1] = "dict" ->
            JObject([i \in 1..Len(v[2]) |-> <<v[2][i][1], dumps(v[2][i][2])>>])

----------------------------------------------------------------------------
(* rendering *)

Opt(cond, line) == IF cond THEN <<line>> ELSE <<>>

JsonItem(item) ==
    PyDict(<< <<"title", item.title>>,
              <<"author", item.author>>,
              <<"pubDate", item.pubDate>>,
              <<"link", item.link>>,
              <<"categories", item.categories>>,
              <<"description", item.description>> >>)

(* the JSON object with the channel language carried along *)
JsonOutput_WithLanguage(ci, its) ==
    PyDict(<< <<"title", ci.title>>,
              <<"link", ci.link>>,
              <<"description", ci.description>>,
              <<"language", ci.language>>,
              <<"items", PyList([i \in 1..Len(its) |-> JsonItem(its[i])])>> >>)

JsonOutput(ci, its) ==
    PyDict(<< <<"title", ci.title>>,
              <<"link", ci.link>>,
              <<"description", ci.description>>,
              <<"items", PyList([i \in 1..Len(its) |-> JsonItem(its[i])])>> >>)

(* lines 105-112: appended before the channel's Categories line *)
ChannelHead(ci) ==
    << Str("Feed: " \o Format(ci.title)),
       Str("Link: " \o Format(ci.link)) >>
    \o Opt(~(ci.lastBuildDate = Str("")),
           Str("Last Build Date: " \o Format(ci.lastBuildDate)))
    \o Opt(~(ci.pubDate = Str("")),
           Str("Publish Date: " \o Format(ci.pubDate)))
    \o Opt(~(ci.language = Str("")),
           Str("Language: " \o Format(ci.language)))

(* lines 113-114 and 131-132 *)
CategoriesLine(rec) ==
    Opt(~(Len(rec.categories[2]) = 0),
        Str("Categories: " \o Join(", ", rec.categories)))

(* the join of lines 114 / 132 is reached and raises TypeError *)
CategoriesRaise(rec) ==
    ~(Len(rec.categories[2]) = 0) /\ ~JoinOk(rec.categories)

(* lines 115-121 *)
ChannelTail(ci) ==
       Opt(~(ci.managingEditor = Str("")),
           Str("Editor: " \o Format(ci.managingEditor)))
    \o Opt(~(ci.description = Str("")),
           Str("Description: " \o Format(ci.description)))
    \o << Str("") >>

(* lines 125-130 *)
ItemHead(item) ==
    << Str("Title: " \o Format(item.title)) >>
    \o Opt(~(item.author = Str("")),
           IF ~(item.author = Str(""))
           THEN Str("Author: " \o Format(item.author)) ELSE Str(""))
    \o Opt(~(item.pubDate = Str("")),
           IF ~(item.pubDate = Str(""))
           THEN Str("Published: " \o Format(item.pubDate)) ELSE Str(""))
    \o << Str("Link: " \o Format(item.link)) >>

(* line 133: the description value itself is appended *)
ItemTail(item) == << item.description >>

----------------------------------------------------------------------------
(* the explored inputs *)

CatNone == Leaf("category", None)

CatA == Leaf("category", Str("a"))

Item1 == Elem("item", None, << Leaf("title", Str("a")), Leaf("link", Str("a")),
                              Leaf("description", Str("a")) >>)

Item2 == Elem("item", None, << Leaf("title", Str("b")),
                              Leaf("description", None) >>)

Item3 == Elem("item", None, << Leaf("author", Str("a")), Leaf("pubDate", Str("b")),
                              CatA, CatNone >>)

Item4 == Elem("item", None, << Leaf("author", None),
                              Leaf("category", Str("b")), CatA >>)

(* children that may follow the channel's leading elements *)
BodyChildren == {CatNone, CatA, Item1, Item2, Item3, Item4}

ChannelHeads ==
    { <<>>,
      << Leaf("title", Str("a")), Leaf("link", Str("a")),
         Leaf("description", Str("a")) >>,
      << Leaf("title", None), Leaf("language", None) >>,
      << Leaf("lastBuildDate", Str("a")), Leaf("pubDate", Str("a")),
         Leaf("language", Str("b")), Leaf("managingEditor", Str("a")),
         Leaf("description", Str("b")), Leaf("title", Str("a")),
         Leaf("title", Str("b")) >> }

SeqsUpTo(S, n) == UNION {[1..k -> S] : k \in 0..n}

Channels ==
    {Elem("channel", None, h \o b) :
        h \in ChannelHeads, b \in SeqsUpTo(BodyChildren, MaxChildren)}

(* roots without a channel child, whatever else they hold *)
OtherRoots ==
    { Elem("rss", None, <<>>),
      Elem("rss", None, << Item1, Leaf("title", Str("a")) >>),
      Elem("feed", Str("a"), << CatNone, Item3 >>) }

Documents ==
    {[wf |-> TRUE, root |-> Elem("rss", None, <<c>>)] : c \in Channels}
    \cup {[wf |-> TRUE, root |-> r] : r \in OtherRoots}
    \cup {[wf |-> TRUE, root |-> Elem("rss", None, <<Item2, c>>)] :
             c \in {Elem("channel", None, <<Item1>>)}}
    \cup {[wf |-> FALSE, root |-> NoElem]}

Limits == {None} \cup {PyInt(n) : n \in (-MaxLimit)..MaxLimit}

NoInfo ==
    [title |-> Unset, link |-> Unset, description |-> Unset,
     lastBuildDate |-> Unset, pubDate |-> Unset, language |-> Unset,
     categories |-> Unset, managingEditor |-> Unset]

----------------------------------------------------------------------------
(* rss_parser *)

Init ==
    /\ xml \in Documents
    /\ limit \in Limits
    /\ json \in BOOLEAN
    /\ pc = "fromstring"
    /\ xml_str = NoElem
    /\ channel = NoElem
    /\ channel_info = NoInfo
    /\ items = <<>>
    /\ idx = 0
    /\ result = <<>>
    /\ json_dump = <<>>
    /\ exc = "none"

(* line 46: et.fromstring(xml) *)
Fromstring ==
    /\ pc = "fromstring"
    /\ xml.wf
    /\ xml_str' = xml.root
    /\ pc' = "find_channel"
    /\ UNCHANGED <<xml, limit, json, channel, channel_info, items, idx,
                   result, json_dump, exc>>

(* line 46: et.fromstring raises on text that is not well-formed *)
FromstringError ==
    /\ pc = "fromstring"
    /\ ~xml.wf
    /\ exc' = "ParseError"
    /\ pc' = "raised"
    /\ UNCHANGED <<xml, limit, json, xml_str, channel, channel_info, items,
                   idx, result, json_dump>>

(* the check of line 49 lost: no channel is ever reported missing *)
ChannelIsNone_Unchecked(ch) == FALSE

(* line 49: channel is None *)
ChannelIsNone(ch) == ch = NoElem

(* lines 48-49, channel found *)
FindChannel ==
    /\ pc = "find_channel"
    /\ ~ChannelIsNone(find(xml_str, "channel"))
    /\ channel' = find(xml_str, "channel")
    /\ pc' = "channel_info"
    /\ UNCHANGED <<xml, limit, json, xml_str, channel_info, items, idx,
                   result, json_dump, exc>>

(* lines 48-50, no channel: raise UnhandledException *)
NoChannel ==
    /\ pc = "find_channel"
    /\ ChannelIsNone(find(xml_str, "channel"))
    /\ channel' = find(xml_str, "channel")
    /\ exc' = "UnhandledException"
    /\ pc' = "raised"
    /\ UNCHANGED <<xml, limit, json, xml_str, channel_info, items, idx,
                   result, json_dump>>

(* lines 53-62 *)
ExtractChannel ==
    /\ pc = "channel_info"
    /\ channel_info' = ChannelInfo(channel)
    /\ pc' = "items"
    /\ UNCHANGED <<xml, limit, json, xml_str, channel, items, idx, result,
                   json_dump, exc>>

(* lines 65-75 *)
ExtractItems ==
    /\ pc = "items"
    /\ items' = ItemInfos(channel)
    /\ pc' = "limit"
    /\ UNCHANGED <<xml, limit, json, xml_str, channel, channel_info, idx,
                   result, json_dump, exc>>

(* lines 78-79 *)
Limited(its, lim) == IF ~IsNone(lim) THEN SliceTo(its, lim[2]) ELSE its

ApplyLimit ==
    /\ pc = "limit"
    /\ items' = Limited(items, limit)
    /\ pc' = "render"
    /\ UNCHANGED <<xml, limit, json, xml_str, channel, channel_info, idx,
                   result, json_dump, exc>>

(* lines 82-99 *)
RenderJson ==
    /\ pc = "render"
    /\ json
    /\ json_dump' = << dumps(JsonOutput(channel_info, items)) >>
    /\ pc' = "returned"
    /\ UNCHANGED <<xml, limit, json, xml_str, channel, channel_info, items,
                   idx, result, exc>>

(* lines 102-121 *)
RenderChannel ==
    /\ pc = "render"
    /\ ~json
    /\ ~CategoriesRaise(channel_info)
    /\ result' = ChannelHead(channel_info) \o CategoriesLine(channel_info)
                     \o ChannelTail(channel_info)
    /\ idx' = 1
    /\ pc' = "render_items"
    /\ UNCHANGED <<xml, limit, json, xml_str, channel, channel_info, items,
                   json_dump, exc>>

(* lines 102-114: the join of the channel categories raises TypeError *)
RenderChannelRaise ==
    /\ pc = "render"
    /\ ~json
    /\ CategoriesRaise(channel_info)
    /\ result' = ChannelHead(channel_info)
    /\ exc' = "TypeError"
    /\ pc' = "raised"
    /\ UNCHANGED <<xml, limit, json, xml_str, channel, channel_info, items,
                   idx, json_dump>>

(* lines 124-133, one iteration *)
RenderItem ==
    /\ pc = "render_items"
    /\ idx <= Len(items)
    /\ ~CategoriesRaise(items[idx])
    /\ result' = result \o ItemHead(items[idx]) \o CategoriesLine(items[idx])
                     \o ItemTail(items[idx])
    /\ idx' = idx + 1
    /\ UNCHANGED <<xml, limit, json, pc, xml_str, channel, channel_info,
                   items, json_dump, exc>>

(* lines 124-132: the join of an item's categories raises TypeError *)
RenderItemRaise ==
    /\ pc = "render_items"
    /\ idx <= Len(items)
    /\ CategoriesRaise(items[idx])
    /\ result' = result \o ItemHead(items[idx])
    /\ exc' = "TypeError"
    /\ pc' = "raised"
    /\ UNCHANGED <<xml, limit, json, xml_str, channel, channel_info, items,
                   idx, json_dump>>

(* line 135 *)
ReturnResult ==
    /\ pc = "render_items"
    /\ idx > Len(items)
    /\ pc' = "returned"
    /\ UNCHANGED <<xml, limit, json, xml_str, channel, channel_info, items,
                   idx, result, json_dump, exc>>

Next ==
    \/ Fromstring
    \/ FromstringError
    \/ FindChannel
    \/ NoChannel
    \/ ExtractChannel
    \/ ExtractItems
    \/ ApplyLimit
    \/ RenderJson
    \/ RenderChannel
    \/ RenderChannelRaise
    \/ RenderItem
    \/ RenderItemRaise
    \/ ReturnResult

Spec == Init /\ [][Next]_vars

----------------------------------------------------------------------------
(* vocabulary of the properties *)

Terminal == pc \in {"returned", "raised"}

(* the document is well-formed and its root has a channel child *)
HasChannel == xml.wf /\ \E i \in 1..Len(xml.root.kids) : xml.root.kids[i].tag = "channel"

(* positions of the direct children of el that carry the tag *)
TagPositions(el, tag) == {i \in 1..Len(el.kids) : el.kids[i].tag = tag}

(* the k-th direct child of el with the tag, counted in document order *)
NthChild(el, tag, k) ==
    LET P == TagPositions(el, tag)
        i == CHOOSE j \in P : Cardinality({m \in P : m <= j}) = k
    IN el.kids[i]

(* the channel element of the document *)
FeedChannel ==
    xml.root.kids[CHOOSE i \in 1..Len(xml.root.kids) :
                     /\ xml.root.kids[i].tag = "channel"
                     /\ \A k \in 1..(i-1) : xml.root.kids[k].tag # "channel"]

(* T: the number of item children of the channel *)
TotalItems == Cardinality(TagPositions(FeedChannel, "item"))

(* the record of the k-th item of the feed *)
FeedItem(k) == ItemInfo(NthChild(FeedChannel, "item", k))

ChannelExtracted == channel_info # NoInfo

ItemsExtracted ==
    pc \in {"limit", "render", "render_items", "returned"} \/ exc = "TypeError"

(* json.loads, the reader of what dumps wrote *)
RECURSIVE loads(_)
loads(j) ==
    CASE j[1] = "null"   -> None
      [] j[1] = "string" -> Str(j[2])
      [] j[1] = "array"  -> PyList([i \in 1..Len(j[2]) |-> loads(j[2][i])])
      [] j[1] = "object" ->
            PyDict([i \in 1..Len(j[2]) |-> <<j[2][i][1], loads(j[2][i][2])>>])

(* the value under a key, and the keys in order, of a dict or JSON object *)
Get(d, key) ==
    LET pairs == d[2]
        i == CHOOSE j \in 1..Len(pairs) : pairs[j][1] = key
    IN pairs[i][2]

Keys(d) == [i \in 1..Len(d[2]) |-> d[2][i][1]]

TextVals == {None, Str(""), Str("a"), Str("b")}

TitleLines == {Str("Title: " \o Format(v)) : v \in TextVals}

(* the items array of the JSON document that was returned *)
JsonItems == Get(loads(json_dump[1]), "items")[2]

(* number of items in what rss_parser returned; nothing is returned on a raise *)
NumItemsOut ==
    IF pc # "returned" THEN 0
    ELSE IF json THEN Len(JsonItems)
    ELSE Cardinality({i \in 1..Len(result) : result[i] \in TitleLines})

IsIntLimit == limit[1] = "int"

----------------------------------------------------------------------------
(* C1: for a feed with a channel holding T items, a limit N >= 0 makes      *)
(* rss_parser output exactly min(N, T) items, an absent limit exactly T.    *)
C1_LimitCount ==
    (HasChannel /\ Terminal /\ (IsNone(limit) \/ limit[2] >= 0)) =>
        NumItemsOut = IF IsNone(limit) THEN TotalItems
                      ELSE Min(limit[2], TotalItems)

(* C2: with a negative limit the output contains no item at all. *)
C2_NegativeLimitKeepsNone ==
    (HasChannel /\ Terminal /\ IsIntLimit /\ limit[2] < 0) => NumItemsOut = 0

(* what C3 asks of one scalar field v read from child `tag` of el *)
ScalarFieldOk(el, tag, v) ==
    /\ IsStr(v)
    /\ (TagPositions(el, tag) = {} \/ IsNone(NthChild(el, tag, 1).text))
          => v = Str("")

ChannelFieldsOk ==
    /\ ScalarFieldOk(channel, "title", channel_info.title)
    /\ ScalarFieldOk(channel, "link", channel_info.link)
    /\ ScalarFieldOk(channel, "description", channel_info.description)
    /\ ScalarFieldOk(channel, "lastBuildDate", channel_info.lastBuildDate)
    /\ ScalarFieldOk(channel, "pubDate", channel_info.pubDate)
    /\ ScalarFieldOk(channel, "language", channel_info.language)
    /\ ScalarFieldOk(channel, "managingEditor", channel_info.managingEditor)

ItemFieldsOk(el, item) ==
    /\ ScalarFieldOk(el, "title", item.title)
    /\ ScalarFieldOk(el, "author", item.author)
    /\ ScalarFieldOk(el, "pubDate", item.pubDate)
    /\ ScalarFieldOk(el, "link", item.link)
    /\ ScalarFieldOk(el, "description", item.description)

(* C3: every scalar field of the channel record and of every item record   *)
(* is a string, "" when the element is absent or has no text; never null.   *)
C3_FieldsAreStrings ==
    /\ ChannelExtracted => ChannelFieldsOk
    /\ ItemsExtracted =>
          \A i \in 1..Len(items) :
              ItemFieldsOk(NthChild(channel, "item", i), items[i])

(* C10: a well-formed feed with a channel never ends in an error outcome,  *)
(* in either mode and for every limit.                                      *)
C10_ChannelFeedNeverFails ==
    (HasChannel /\ Terminal) => (pc = "returned" /\ exc = "none")

(* C4: a root without a channel child ends in the error outcome and no     *)
(* output line or JSON string exists at any moment of such a run.           *)
C4_NoChannelFails ==
    (xml.wf /\ ~HasChannel) =>
        /\ pc \in {"fromstring", "find_channel", "raised"}
        /\ pc = "raised" => exc = "UnhandledException"
        /\ pc # "raised" => (exc = "none" /\ ENABLED Next)
        /\ result = <<>>
        /\ json_dump = <<>>

C4_Witness ==
    /\ xml.wf /\ ~HasChannel
    /\ xml.root.kids # <<>>
    /\ pc = "raised"
    /\ exc = "UnhandledException"
    /\ result = <<>> /\ json_dump = <<>>

(* the six fields of the i-th object of the JSON items array *)
JsonItemMatches(obj, item) ==
    /\ Keys(obj) = <<"title", "author", "pubDate", "link", "categories",
                     "description">>
    /\ Get(obj, "title") = item.title
    /\ Get(obj, "author") = item.author
    /\ Get(obj, "pubDate") = item.pubDate
    /\ Get(obj, "link") = item.link
    /\ Get(obj, "categories") = item.categories
    /\ Get(obj, "description") = item.description

(* C7: in JSON mode a feed with a channel yields one JSON object with the  *)
(* keys title, link, description, items and nothing else; its items array   *)
(* equals the limited item sequence in length, order and field values.      *)
C7_JsonShape ==
    (HasChannel /\ json /\ Terminal) =>
        /\ pc = "returned"
        /\ Len(json_dump) = 1
        /\ json_dump[1][1] = "object"
        /\ [i \in 1..Len(json_dump[1][2]) |-> json_dump[1][2][i][1]]
              = <<"title", "link", "description", "items">>
        /\ Get(loads(json_dump[1]), "title") = channel_info.title
        /\ Get(loads(json_dump[1]), "link") = channel_info.link
        /\ Get(loads(json_dump[1]), "description") = channel_info.description
        /\ Get(json_dump[1], "items")[1] = "array"
        /\ Len(JsonItems) = Len(items)
        /\ \A i \in 1..Len(items) : JsonItemMatches(JsonItems[i], items[i])

C7_Witness ==
    /\ HasChannel /\ json /\ pc = "returned"
    /\ TagPositions(channel, "language") # {}
    /\ TagPositions(channel, "lastBuildDate") # {}
    /\ IsIntLimit
    /\ Len(items) = 2
    /\ TotalItems = 3
    /\ items[1] # items[2]

(* the text lines of a sequence of item records, when every join succeeds *)
RECURSIVE ItemBlocks(_)
ItemBlocks(its) ==
    IF its = <<>> THEN <<>>
    ELSE ItemHead(Head(its)) \o CategoriesLine(Head(its)) \o ItemTail(Head(its))
         \o ItemBlocks(Tail(its))

ChannelLines(ci) == ChannelHead(ci) \o CategoriesLine(ci) \o ChannelTail(ci)

(* the first k items of the feed, in document order *)
FeedPrefix(k) == [i \in 1..k |-> FeedItem(i)]

(* C8: in both modes and for every limit, the items that are output are a  *)
(* prefix of the feed's items in document order.                            *)
C8_OutputIsPrefix ==
    /\ (ItemsExtracted /\ pc # "limit") =>
          \E k \in 0..TotalItems : items = FeedPrefix(k)
    /\ (pc = "returned" /\ json) =>
          \E k \in 0..TotalItems :
              /\ Len(JsonItems) = k
              /\ \A i \in 1..k : JsonItemMatches(JsonItems[i], FeedItem(i))
    /\ (pc = "returned" /\ ~json) =>
          \E k \in 0..TotalItems :
              /\ \A i \in 1..k : ~CategoriesRaise(FeedItem(i))
              /\ NumItemsOut = k
              /\ result = ChannelLines(ChannelInfo(FeedChannel))
                              \o ItemBlocks(FeedPrefix(k))

C8_Witness ==
    /\ pc = "returned" /\ ~json
    /\ TotalItems = 3
    /\ limit = PyInt(2)
    /\ NumItemsOut = 2
    /\ FeedItem(1) # FeedItem(2) /\ FeedItem(2) # FeedItem(3)
    /\ FeedItem(1) # FeedItem(3)

(* what C9 asks of the categories list of the record read from el *)
CategoriesMatch(el, list) ==
    LET P == TagPositions(el, "category")
    IN /\ list[1] = "list"
       /\ Len(list[2]) = Cardinality(P)
       /\ \A i \in P : list[2][Cardinality({m \in P : m <= i})] = el.kids[i].text

(* C9: the categories of the channel record and of every item record hold  *)
(* one entry per category child, in document order, a child without text    *)
(* included; the list is empty when there is no such child.                 *)
C9_CategoriesPerChild ==
    /\ ChannelExtracted => CategoriesMatch(channel, channel_info.categories)
    /\ ItemsExtracted =>
          \A i \in 1..Len(items) :
              CategoriesMatch(NthChild(channel, "item", i), items[i].categories)

C9_Witness ==
    /\ pc = "limit"
    /\ channel_info.categories = PyList(<<None, Str("a")>>)
    /\ Len(items) = 1
    /\ items[1].categories = PyList(<<Str("a"), None>>)

(* the reading of the properties: a field is non-empty when it holds text *)
NonEmpty(v) == IsStr(v) /\ v[2] # ""

(* the text of a field, "" for a field without text *)
TextOf(v) == IF IsStr(v) THEN v[2] ELSE ""

RECURSIVE JoinTexts(_)
JoinTexts(seq) ==
    IF seq = <<>> THEN ""
    ELSE IF Len(seq) = 1 THEN TextOf(seq[1])
    ELSE TextOf(seq[1]) \o ", " \o JoinTexts(Tail(seq))

(* the channel header C5 describes, the blank line included *)
DescribedHeader(ci) ==
    << Str("Feed: " \o TextOf(ci.title)), Str("Link: " \o TextOf(ci.link)) >>
    \o Opt(NonEmpty(ci.lastBuildDate),
           Str("Last Build Date: " \o TextOf(ci.lastBuildDate)))
    \o Opt(NonEmpty(ci.pubDate), Str("Publish Date: " \o TextOf(ci.pubDate)))
    \o Opt(NonEmpty(ci.language), Str("Language: " \o TextOf(ci.language)))
    \o Opt(Len(ci.categories[2]) > 0,
           Str("Categories: " \o JoinTexts(ci.categories[2])))
    \o Opt(NonEmpty(ci.managingEditor),
           Str("Editor: " \o TextOf(ci.managingEditor)))
    \o Opt(NonEmpty(ci.description),
           Str("Description: " \o TextOf(ci.description)))
    \o << Str("") >>

(* C5: in text mode the output of a feed with a channel starts with Feed   *)
(* and Link, then the optional channel lines in the fixed order, each       *)
(* present iff its field is non-empty, then one blank line.                 *)
C5_ChannelHeader ==
    (HasChannel /\ ~json /\ Terminal) =>
        /\ pc = "returned"
        /\ Len(result) >= Len(DescribedHeader(channel_info))
        /\ SubSeq(result, 1, Len(DescribedHeader(channel_info)))
              = DescribedHeader(channel_info)

(* the block of one item as C6 describes it *)
DescribedBlock(item) ==
    << Str("Title: " \o TextOf(item.title)) >>
    \o Opt(NonEmpty(item.author), Str("Author: " \o TextOf(item.author)))
    \o Opt(NonEmpty(item.pubDate), Str("Published: " \o TextOf(item.pubDate)))
    \o << Str("Link: " \o TextOf(item.link)) >>
    \o Opt(Len(item.categories[2]) > 0,
           Str("Categories: " \o JoinTexts(item.categories[2])))
    \o << Str(TextOf(item.description)) >>

RECURSIVE DescribedBlocks(_)
DescribedBlocks(its) ==
    IF its = <<>> THEN <<>>
    ELSE DescribedBlock(Head(its)) \o DescribedBlocks(Tail(its))

(* C6: in text mode every kept item contributes its block of lines after   *)
(* the channel header, ending with its description as a line of its own,    *)
(* the string "" for an empty description element.                          *)
C6_ItemBlocks ==
    (pc = "returned" /\ ~json) =>
        /\ \A i \in 1..Len(result) : IsStr(result[i])
        /\ SubSeq(result, Len(ChannelLines(channel_info)) + 1, Len(result))
              = DescribedBlocks(items)

====
